---- MODULE Spec2Model ----
(***************************************************************************)
(* LocalDevManager (src/packages/cli/commands/secrets/addSecret.js,        *)
(* lines 134-542): the watch / upload / debounce / deploy loop.            *)
(*                                                                         *)
(* An `await` on the upload queue (addAll, onIdle), on the watcher (close)  *)
(* or on the build service (provisionBuild, queueBuild, cancelStagedBuild, *)
(* pollProjectBuildAndDeploy, the file calls) is a suspension point: the   *)
(* code between two of them is one atomic action, and any other enabled    *)
(* callback may run while a caller is suspended.  The manager's own stubs  *)
(* (startServers, notifyServers, cleanupServers) resolve at once and are   *)
(* part of the step that calls them.  The upload queue is a p-queue: a     *)
(* task added while the queue runs below its concurrency limit starts      *)
(* inside add(); a paused queue only stores it.                            *)
(***************************************************************************)
EXTENDS Integers, Sequences, FiniteSets, TLC

\* ---------------------------------------------------------------- bounds
MaxEvents == 3      \* watcher events delivered in one run
MaxStops == 2       \* invocations of stop() in one run
MaxFires == 2       \* firings of the debounce timer in one run
TickMs == 1000      \* granularity of the clock
MaxFailures == 1    \* file calls the build service rejects in one run
MaxBurst == 11      \* events of one burst: one more than the queue runs at once

\* ------------------------------------------------------ program constants
BUILD_DEBOUNCE_TIME == 2000
Concurrency == 10

WATCH_EVENTS == {"add", "change", "unlink", "unlinkDir"}

\* The events the watcher of the model emits: change is handled like add
\* and unlinkDir like unlink everywhere in the manager.
EmittedEvents == {"add", "unlink"}

\* Paths under the project source directory.  c.log is matched by the
\* ignore rules, so the watcher (ignored: shouldIgnoreFile) never reports it.
Paths == {"a.html", "b.exe", "c.log"}

isAllowedExtension(filePath) == filePath = "a.html"

shouldIgnoreFile(filePath) == filePath = "c.log"

EXIT_CODES == [SUCCESS |-> "SUCCESS", ERROR |-> "ERROR"]

\* ------------------------------------------------------------------ state
VARIABLES
    preventUploads,        \* options.preventUploads
    startPc,               \* position of start(): init, provision, cancelStale,
                           \*   watching, failed
    watcherClosed,         \* watcher.close() has been called
    isPaused,              \* uploadQueue.isPaused
    queue,                 \* uploadQueue: tasks stored, not yet started
    pending,               \* uploadQueue: running tasks (the call each awaits)
    standbyChanges,        \* this.standbyChanges
    timers,                \* outstanding setTimeout timers: handle -> ms elapsed
    debouncedBuild,        \* this.debouncedBuild (0 = null)
    currentStagedBuildId,  \* this.currentStagedBuildId (0 = null)
    status,                \* text of the devModeStatus spinner
    handlers,              \* handleWatchEvent invocations, in emission order:
                           \*   the event and where the handler is (flush:
                           \*   suspended on addAll) or how it returned
    cbs,                   \* debounce callbacks: position -> how many are there
    cbFlush,               \* un-awaited flushStandbyChanges() of the callback
    stops,                 \* stop() invocations: position -> how many
    calls,                 \* uploadFileToBuild / deleteFileFromBuild calls issued
    inflight,              \* indexes into calls not yet completed
    provisionCalls,        \* provisionBuild calls issued
    queueBuildCalls,       \* queueBuild calls issued
    stopCancelCalls,       \* cancelStagedBuild calls issued by stop()
    staleCancelCalls,      \* cancelStagedBuild calls issued by createNewStagingBuild
    fires,                 \* debounce timers that fired
    sinceArm,              \* ms since the latest debounceQueueBuild() call
    stopCancelResult,      \* what cancelStagedBuild answered to stop()
    exitedBy,              \* who called process.exit: stop or provision
    exitCode,              \* process.exit code ("none" while running)
    unhandledRejections,   \* file calls whose rejection reached no handler
    queueBuildResult,      \* what queueBuild answered last (none before the first)
    supportedPaths,        \* paths a dev server takes care of: notifyServers answers true
    remoteBuild            \* the staged build the service holds for this run:
                           \*   none, created (id not yet received), known

vars == <<preventUploads, startPc, watcherClosed, isPaused, queue, pending,
          standbyChanges, timers, debouncedBuild, currentStagedBuildId, status,
          handlers, cbs, cbFlush, stops, calls, inflight, provisionCalls,
          queueBuildCalls, stopCancelCalls, staleCancelCalls, fires, sinceArm,
          stopCancelResult, exitedBy, exitCode,
          unhandledRejections,
          queueBuildResult,
          supportedPaths,
          remoteBuild>>

CbPcs == {"drain", "queueBuild", "poll", "provision", "cancelStale"}
StopPcs == {"close", "cancel"}

Min(a, b) == IF a < b THEN a ELSE b

\* The synchronous part of the manager, as a record the helpers transform.
Machine ==
    [isPaused |-> isPaused, queue |-> queue, pending |-> pending,
     standbyChanges |-> standbyChanges, timers |-> timers,
     debouncedBuild |-> debouncedBuild, status |-> status, calls |-> calls,
     inflight |-> inflight, sinceArm |-> sinceArm]

Commit(m) ==
    /\ isPaused' = m.isPaused
    /\ queue' = m.queue
    /\ pending' = m.pending
    /\ standbyChanges' = m.standbyChanges
    /\ timers' = m.timers
    /\ debouncedBuild' = m.debouncedBuild
    /\ status' = m.status
    /\ calls' = m.calls
    /\ inflight' = m.inflight
    /\ sinceArm' = m.sinceArm

Alive == exitCode = "none"

\* process.exit(code)
Exit(code, by) == exitCode' = code /\ exitedBy' = by

\* ------------------------------------------------------------ timers
clearTimeout(ts, h) == [t \in DOMAIN ts \ {h} |-> ts[t]]

\* A fresh timer: the smallest handle no outstanding timer uses.
setTimeout(ts) ==
    CHOOSE h \in 1..(Cardinality(DOMAIN ts) + 1) : h \notin DOMAIN ts

\* A faulty debounceQueueBuild: the outstanding timer is not cleared.
debounceQueueBuildNoClear(m) ==
    LET h == setTimeout(m.timers)
    IN  [m EXCEPT !.status = "dirty",
                  !.timers = [t \in DOMAIN m.timers \cup {h} |->
                                 IF t = h THEN 0 ELSE m.timers[t]],
                  !.debouncedBuild = h,
                  !.sinceArm = 0]

debounceQueueBuild(m) ==
    LET cleared == IF m.debouncedBuild # 0
                   THEN clearTimeout(m.timers, m.debouncedBuild)
                   ELSE m.timers
        h == setTimeout(cleared)
    IN  [m EXCEPT !.status = "dirty",
                  !.timers = [t \in DOMAIN cleared \cup {h} |->
                                 IF t = h THEN 0 ELSE cleared[t]],
                  !.debouncedBuild = h,
                  !.sinceArm = 0]

\* ------------------------------------------------------------ file sync
\* A faulty sendChanges: every event is sent as an upload.
sendChangesAlwaysUpload(m, changeInfo, via) ==
    [m EXCEPT !.calls = Append(@, [op |-> "upload", id |-> changeInfo.id,
                                   filePath |-> changeInfo.filePath,
                                   via |-> via]),
              !.inflight = @ \cup {Len(m.calls) + 1}]

\* sendChanges: the remote call is issued at once; via records who sent it.
sendChanges(m, changeInfo, via) ==
    LET op == IF changeInfo.event \in {"add", "change"} THEN "upload"
              ELSE IF changeInfo.event \in {"unlink", "unlinkDir"} THEN "delete"
              ELSE "none"
        call == [op |-> op, id |-> changeInfo.id,
                 filePath |-> changeInfo.filePath, via |-> via]
    IN  IF op = "none" THEN m
        ELSE [m EXCEPT !.calls = Append(@, call),
                       !.inflight = @ \cup {Len(m.calls) + 1}]

\* ------------------------------------------------------------ upload queue
\* The task of handleWatchEvent awaits sendChanges: it stays pending until
\* the call completes.  The task of flushStandbyChanges does not await it:
\* it is over as soon as the call is issued.
RunTask(m, task) ==
    IF task.type = "direct"
    THEN LET m1 == sendChanges(m, task, "direct")
         IN  IF Len(m1.calls) > Len(m.calls)
             THEN [m1 EXCEPT !.pending = @ \cup {Len(m1.calls)}]
             ELSE m1
    ELSE LET m1 == IF ~m.isPaused THEN debounceQueueBuild(m) ELSE m
         IN  sendChanges(m1, task, "flush")

RECURSIVE tryToStartAnother(_)
tryToStartAnother(m) ==
    IF Len(m.queue) = 0 \/ m.isPaused \/ Cardinality(m.pending) >= Concurrency
    THEN m
    ELSE tryToStartAnother(
             RunTask([m EXCEPT !.queue = Tail(@)], Head(m.queue)))

QueueAdd(m, task) == tryToStartAnother([m EXCEPT !.queue = Append(@, task)])

RECURSIVE addAll(_, _)
addAll(m, tasks) ==
    IF tasks = << >> THEN m
    ELSE addAll(QueueAdd(m, Head(tasks)), Tail(tasks))

\* uploadQueue.start() and the status spinners startUploadQueue() resets.
startUploadQueue(m) ==
    tryToStartAnother([m EXCEPT !.isPaused = FALSE, !.status = "clean"])

Idle(m) == Len(m.queue) = 0 /\ m.pending = {}

\* ------------------------------------------------------------ standby buffer
addChangeToStandbyQueue(m, changeInfo) ==
    IF /\ changeInfo.event \in {"add", "change"}
       /\ ~isAllowedExtension(changeInfo.filePath)
    THEN m
    ELSE IF shouldIgnoreFile(changeInfo.filePath)
    THEN m
    ELSE [m EXCEPT !.standbyChanges = Append(@, changeInfo)]

hasAnyUnsupportedStandbyChanges(m) ==
    \E i \in 1..Len(m.standbyChanges) : ~m.standbyChanges[i].supported

FlushTask(owner, changeInfo) ==
    [type |-> "flush", owner |-> owner, id |-> changeInfo.id,
     event |-> changeInfo.event, filePath |-> changeInfo.filePath]

\* flushStandbyChanges up to its await: one task per buffered change.
flushStandbyChanges(m, owner) ==
    addAll(m, [i \in 1..Len(m.standbyChanges) |->
                  FlushTask(owner, m.standbyChanges[i])])

\* addAll's promise: every task of this flush has run.
Flushed(m, owner) ==
    \A i \in 1..Len(m.queue) :
        ~(m.queue[i].type = "flush" /\ m.queue[i].owner = owner)

\* flushStandbyChanges after its await.
clearStandbyChanges(m) == [m EXCEPT !.standbyChanges = << >>]

\* notifyServers is a stub that resolves to false; with dev servers plugged
\* in it resolves to true for the changes a server takes care of.
notifyServers(changeInfo) == changeInfo.filePath \in supportedPaths

\* ------------------------------------------------------------ handleWatchEvent
ChangeInfo(i) ==
    [id |-> i, event |-> handlers[i].event, filePath |-> handlers[i].filePath]

Standby(changeInfo, supported) ==
    [id |-> changeInfo.id, event |-> changeInfo.event,
     filePath |-> changeInfo.filePath, supported |-> supported]

DirectTask(changeInfo) ==
    [type |-> "direct", owner |-> changeInfo.id, id |-> changeInfo.id,
     event |-> changeInfo.event, filePath |-> changeInfo.filePath]

\* handleWatchEvent after `await this.flushStandbyChanges()`.
dispatchChange(m, changeInfo) ==
    LET m1 == IF ~m.isPaused THEN debounceQueueBuild(m) ELSE m
    IN  QueueAdd(m1, DirectTask(changeInfo))

\* A faulty handleWatchEvent: preventUploads is not consulted.
handleWatchEventNoPrevent(m, changeInfo) ==
    IF m.isPaused
    THEN [m |-> IF \E k \in 1..Len(m.standbyChanges) :
                       m.standbyChanges[k].filePath = changeInfo.filePath
                THEN m
                ELSE addChangeToStandbyQueue(m, Standby(changeInfo, FALSE)),
          pc |-> "standby"]
    ELSE IF Len(m.standbyChanges) > 0
    THEN [m |-> flushStandbyChanges(m, changeInfo.id), pc |-> "flush"]
    ELSE [m |-> dispatchChange(m, changeInfo), pc |-> "dispatched"]

\* handleWatchEvent up to its suspension on the queue.  An empty standby
\* buffer makes flushStandbyChanges return without calling addAll.
handleWatchEvent(m, changeInfo) ==
    IF notifyServers(changeInfo)
    THEN [m |-> addChangeToStandbyQueue(
                    [m EXCEPT !.status = "supportedChange"],
                    Standby(changeInfo, TRUE)),
          pc |-> "supported"]
    ELSE IF preventUploads
    THEN [m |-> [m EXCEPT !.status = "uploadPrevented"], pc |-> "prevented"]
    ELSE IF m.isPaused
    THEN [m |-> IF \E k \in 1..Len(m.standbyChanges) :
                       m.standbyChanges[k].filePath = changeInfo.filePath
                THEN m
                ELSE addChangeToStandbyQueue(m, Standby(changeInfo, FALSE)),
          pc |-> "standby"]
    ELSE IF Len(m.standbyChanges) > 0
    THEN [m |-> flushStandbyChanges(m, changeInfo.id), pc |-> "flush"]
    ELSE [m |-> dispatchChange(m, changeInfo), pc |-> "dispatched"]

\* ------------------------------------------------------------ stop()
StopsTotal == stops["close"] + stops["cancel"]

\* stop() up to `await this.watcher.close()`: the watcher delivers nothing more.
InvokeStop ==
    /\ watcherClosed' = TRUE
    /\ stops' = [stops EXCEPT !["close"] = @ + 1]

\* A faulty pauseUploadQueue: the queue is not paused.
pauseUploadQueueNoPause(m) == [m EXCEPT !.status = "uploading"]

pauseUploadQueue(m) == [m EXCEPT !.status = "uploading", !.isPaused = TRUE]

\* ------------------------------------------------------------ initial state
InitManager ==
    /\ preventUploads \in BOOLEAN
    /\ startPc = "init"
    /\ watcherClosed = FALSE
    /\ isPaused = FALSE
    /\ queue = << >>
    /\ pending = {}
    /\ standbyChanges = << >>
    /\ timers = << >>
    /\ debouncedBuild = 0
    /\ currentStagedBuildId = 0
    /\ status = "none"
    /\ handlers = << >>
    /\ cbs = [p \in CbPcs |-> 0]
    /\ cbFlush = 0
    /\ stops = [p \in StopPcs |-> 0]
    /\ calls = << >>
    /\ inflight = {}
    /\ provisionCalls = 0
    /\ queueBuildCalls = 0
    /\ stopCancelCalls = 0
    /\ staleCancelCalls = 0
    /\ fires = 0
    /\ sinceArm = 0
    /\ stopCancelResult = "none"
    /\ exitedBy = "none"
    /\ exitCode = "none"
    /\ unhandledRejections = {}
    /\ queueBuildResult = "none"
    /\ remoteBuild = "none"

\* The manager as the source has it: no dev server is plugged in.
Init == InitManager /\ supportedPaths = {}

machineVars == <<isPaused, queue, pending, standbyChanges, timers,
                 debouncedBuild, status, calls, inflight, sinceArm>>
exitVars == <<stopCancelResult, exitedBy, exitCode>>
remoteVars == <<provisionCalls, queueBuildCalls, stopCancelCalls,
                staleCancelCalls>>

\* ------------------------------------------------------------ start()
\* start(): the queue is created and started, then startWatching() calls
\* provisionBuild unless uploads are prevented; the watcher listeners are
\* registered after createNewStagingBuild returns.
Start ==
    /\ Alive /\ startPc = "init"
    /\ Commit(startUploadQueue(Machine))
    /\ IF preventUploads
       THEN /\ startPc' = "watching"
            /\ UNCHANGED provisionCalls
       ELSE /\ startPc' = "provision"
            /\ provisionCalls' = provisionCalls + 1
    /\ UNCHANGED <<remoteBuild, supportedPaths, queueBuildResult,
                   unhandledRejections, preventUploads, watcherClosed,
                   currentStagedBuildId, handlers, cbs, cbFlush, stops,
                   queueBuildCalls, stopCancelCalls, staleCancelCalls, fires,
                   exitVars>>

\* ------------------------------------------------------------ createNewStagingBuild
\* After a deploy the callback goes on: startUploadQueue(), then the flush
\* of the standby buffer (not awaited) or the clean status.
afterDeploy(m) ==
    LET m1 == startUploadQueue(m)
    IN  IF hasAnyUnsupportedStandbyChanges(m1)
        THEN flushStandbyChanges(m1, 0)
        ELSE [m1 EXCEPT !.status = "clean"]

\* The build service serves the provisionBuild request in flight: the new
\* staged build exists, the answer with its id is on its way.  The service
\* does this whether or not the process is still there to get the answer.
RemoteProvisions ==
    /\ startPc = "provision" \/ cbs["provision"] > 0
    /\ remoteBuild = "none"
    /\ remoteBuild' = "created"
    /\ UNCHANGED <<preventUploads, startPc, watcherClosed, machineVars,
                   currentStagedBuildId, handlers, cbs, cbFlush, stops,
                   remoteVars, fires, exitVars, unhandledRejections,
                   queueBuildResult, supportedPaths>>

\* provisionBuild returns: who is "start" (startWatching) or "cb" (the
\* debounce callback).  It returns the id of the build the service created,
\* or an error when the service created none.
ProvisionDone(who, r) ==
    /\ Alive
    /\ \/ who = "start" /\ startPc = "provision"
       \/ who = "cb" /\ cbs["provision"] > 0
    /\ r = "ok" <=> remoteBuild = "created"
    /\ remoteBuild' = IF r = "ok" THEN "known" ELSE remoteBuild
    /\ IF r = "ok"
       THEN /\ currentStagedBuildId' = provisionCalls
            /\ UNCHANGED <<staleCancelCalls, exitVars>>
            /\ IF who = "start"
               THEN /\ startPc' = "watching"
                    /\ UNCHANGED <<machineVars, cbs, cbFlush>>
               ELSE /\ cbs' = [cbs EXCEPT !["provision"] = @ - 1]
                    /\ Commit(afterDeploy(Machine))
                    /\ cbFlush' = IF hasAnyUnsupportedStandbyChanges(Machine)
                                  THEN cbFlush + 1 ELSE cbFlush
                    /\ UNCHANGED startPc
       ELSE IF r = "PROJECT_LOCKED"
       THEN /\ staleCancelCalls' = staleCancelCalls + 1
            /\ IF who = "start"
               THEN startPc' = "cancelStale" /\ UNCHANGED cbs
               ELSE /\ cbs' = [cbs EXCEPT !["provision"] = @ - 1,
                                          !["cancelStale"] = @ + 1]
                    /\ UNCHANGED startPc
            /\ UNCHANGED <<machineVars, cbFlush, currentStagedBuildId, exitVars>>
       ELSE /\ Exit(EXIT_CODES.ERROR, "provision")
            /\ UNCHANGED <<machineVars, cbs, cbFlush, startPc,
                           currentStagedBuildId, staleCancelCalls,
                           stopCancelResult>>
    /\ UNCHANGED <<supportedPaths, queueBuildResult, unhandledRejections,
                   preventUploads, watcherClosed, handlers, stops,
                   provisionCalls, queueBuildCalls, stopCancelCalls, fires>>

\* cancelStagedBuild of the stale build returns: process.exit(ERROR); when
\* it throws, the error leaves createNewStagingBuild and its caller.
CancelStaleDone(who, r) ==
    /\ Alive
    /\ \/ who = "start" /\ startPc = "cancelStale"
       \/ who = "cb" /\ cbs["cancelStale"] > 0
    /\ IF r = "ok"
       THEN /\ Exit(EXIT_CODES.ERROR, "provision")
            /\ UNCHANGED <<startPc, cbs>>
       ELSE /\ UNCHANGED <<exitCode, exitedBy>>
            /\ IF who = "start"
               THEN startPc' = "failed" /\ UNCHANGED cbs
               ELSE /\ cbs' = [cbs EXCEPT !["cancelStale"] = @ - 1]
                    /\ UNCHANGED startPc
    /\ UNCHANGED <<remoteBuild, supportedPaths, queueBuildResult,
                   unhandledRejections, preventUploads, watcherClosed,
                   machineVars, currentStagedBuildId, handlers, cbFlush, stops,
                   remoteVars, fires, stopCancelResult>>

\* ------------------------------------------------------------ watcher events
\* The watcher emits an event: handleWatchEvent runs up to its suspension
\* on the queue, or to its end.
Deliver(event, filePath) ==
    /\ Alive /\ startPc = "watching" /\ ~watcherClosed
    /\ ~shouldIgnoreFile(filePath)
    /\ LET i == Len(handlers) + 1
           r == handleWatchEvent(Machine,
                    [id |-> i, event |-> event, filePath |-> filePath])
       IN  /\ Commit(r.m)
           /\ handlers' = Append(handlers,
                  [pc |-> r.pc, event |-> event, filePath |-> filePath])
    /\ UNCHANGED <<remoteBuild, supportedPaths, queueBuildResult,
                   unhandledRejections, preventUploads, startPc, watcherClosed,
                   currentStagedBuildId, cbs, cbFlush, stops, remoteVars,
                   fires, exitVars>>

WatchEvent(event, filePath) ==
    /\ Len(handlers) < MaxEvents
    /\ Deliver(event, filePath)

\* One more of a burst of saves of the same file; the burst is over when
\* the timer fires.
BurstEvent ==
    /\ Len(handlers) < MaxBurst
    /\ fires = 0
    /\ Deliver("add", "a.html")

\* flushStandbyChanges resolved inside handleWatchEvent: the buffer is
\* cleared, then the change itself is dispatched.
AfterFlush(i) ==
    /\ Alive
    /\ handlers[i].pc = "flush"
    /\ Flushed(Machine, i)
    /\ Commit(dispatchChange(clearStandbyChanges(Machine), ChangeInfo(i)))
    /\ handlers' = [handlers EXCEPT ![i].pc = "flushed"]
    /\ UNCHANGED <<remoteBuild, supportedPaths, queueBuildResult,
                   unhandledRejections, preventUploads, startPc, watcherClosed,
                   currentStagedBuildId, cbs, cbFlush, stops, remoteVars,
                   fires, exitVars>>

\* The flush the debounce callback started resolved: the buffer is cleared.
CbFlushed ==
    /\ Alive
    /\ cbFlush > 0
    /\ Flushed(Machine, 0)
    /\ Commit(clearStandbyChanges(Machine))
    /\ cbFlush' = cbFlush - 1
    /\ UNCHANGED <<remoteBuild, supportedPaths, queueBuildResult,
                   unhandledRejections, preventUploads, startPc, watcherClosed,
                   currentStagedBuildId, handlers, cbs, stops, remoteVars,
                   fires, exitVars>>

\* An uploadFileToBuild / deleteFileFromBuild call completes; the queue
\* task awaiting it ends and the queue starts the next stored task.
\* sendChanges returns the promise of the call from inside its try block
\* without awaiting it, so a rejection passes by the catch clause: the task
\* of handleWatchEvent rejects and with it the promise add() returned, which
\* handleWatchEvent returns to a listener that neither awaits nor catches
\* it; the task of flushStandbyChanges drops the promise of sendChanges.
UploadDone(c, r) ==
    /\ Alive
    /\ c \in inflight
    /\ r = "error" => Cardinality(unhandledRejections) < MaxFailures
    /\ Commit(tryToStartAnother(
           [Machine EXCEPT !.inflight = @ \ {c}, !.pending = @ \ {c}]))
    /\ unhandledRejections' = IF r = "error"
                              THEN unhandledRejections \cup {c}
                              ELSE unhandledRejections
    /\ UNCHANGED <<remoteBuild, supportedPaths, queueBuildResult,
                   preventUploads, startPc, watcherClosed,
                   currentStagedBuildId, handlers, cbs, cbFlush, stops,
                   remoteVars, fires, exitVars>>

\* ------------------------------------------------------------ debounce timer
Tick ==
    /\ Alive
    /\ \E h \in DOMAIN timers : timers[h] < BUILD_DEBOUNCE_TIME
    /\ timers' = [h \in DOMAIN timers |->
                     Min(timers[h] + TickMs, BUILD_DEBOUNCE_TIME)]
    /\ sinceArm' = Min(sinceArm + TickMs, BUILD_DEBOUNCE_TIME)
    /\ UNCHANGED <<remoteBuild, supportedPaths, queueBuildResult,
                   unhandledRejections, preventUploads, startPc, watcherClosed,
                   isPaused, queue, pending, standbyChanges, debouncedBuild,
                   status, calls, inflight, currentStagedBuildId, handlers,
                   cbs, cbFlush, stops, remoteVars, fires, exitVars>>

\* The timer fires: the callback runs pauseUploadQueue() up to
\* `await this.uploadQueue.onIdle()`.
TimerFires(h) ==
    /\ Alive
    /\ fires < MaxFires
    /\ h \in DOMAIN timers
    /\ timers[h] >= BUILD_DEBOUNCE_TIME
    /\ Commit(pauseUploadQueue(
           [Machine EXCEPT !.timers = clearTimeout(@, h)]))
    /\ cbs' = [cbs EXCEPT !["drain"] = @ + 1]
    /\ fires' = fires + 1
    /\ UNCHANGED <<remoteBuild, supportedPaths, queueBuildResult,
                   unhandledRejections, preventUploads, startPc, watcherClosed,
                   currentStagedBuildId, handlers, cbFlush, stops, remoteVars,
                   exitVars>>

\* onIdle resolved: queueBuild is called.
CbDrained ==
    /\ Alive
    /\ cbs["drain"] > 0
    /\ Idle(Machine)
    /\ cbs' = [cbs EXCEPT !["drain"] = @ - 1, !["queueBuild"] = @ + 1]
    /\ queueBuildCalls' = queueBuildCalls + 1
    /\ UNCHANGED <<remoteBuild, supportedPaths, queueBuildResult,
                   unhandledRejections, preventUploads, startPc, watcherClosed,
                   machineVars, currentStagedBuildId, handlers, cbFlush, stops,
                   provisionCalls, stopCancelCalls, staleCancelCalls, fires,
                   exitVars>>

\* A faulty onQueueBuild: after an unspecified error the callback goes on
\* as if the build had been queued.
onQueueBuildGoOn(r) ==
    IF r = "MISSING_PROJECT_PROVISION" THEN "stop" ELSE "poll"

\* What the callback does with the outcome of queueBuild: await the poll,
\* call stop(), or log the error and return.
onQueueBuild(r) ==
    IF r = "ok" THEN "poll"
    ELSE IF r = "MISSING_PROJECT_PROVISION" THEN "stop"
    ELSE "return"

\* queueBuild returns.
CbQueueBuildDone(r) ==
    /\ Alive
    /\ cbs["queueBuild"] > 0
    /\ queueBuildResult' = r
    /\ remoteBuild' = IF r = "other" THEN remoteBuild ELSE "none"
    /\ IF onQueueBuild(r) = "poll"
       THEN /\ cbs' = [cbs EXCEPT !["queueBuild"] = @ - 1, !["poll"] = @ + 1]
            /\ UNCHANGED <<watcherClosed, stops>>
       ELSE IF onQueueBuild(r) = "stop"
       THEN /\ cbs' = [cbs EXCEPT !["queueBuild"] = @ - 1]
            /\ InvokeStop
       ELSE /\ cbs' = [cbs EXCEPT !["queueBuild"] = @ - 1]
            /\ UNCHANGED <<watcherClosed, stops>>
    /\ UNCHANGED <<supportedPaths, unhandledRejections, preventUploads,
                   startPc, machineVars, currentStagedBuildId, handlers,
                   cbFlush, remoteVars, fires, exitVars>>

\* pollProjectBuildAndDeploy returned: createNewStagingBuild calls
\* provisionBuild.
CbPollDone ==
    /\ Alive
    /\ cbs["poll"] > 0
    /\ cbs' = [cbs EXCEPT !["poll"] = @ - 1, !["provision"] = @ + 1]
    /\ provisionCalls' = provisionCalls + 1
    /\ UNCHANGED <<remoteBuild, supportedPaths, queueBuildResult,
                   unhandledRejections, preventUploads, startPc, watcherClosed,
                   machineVars, currentStagedBuildId, handlers, cbFlush, stops,
                   queueBuildCalls, stopCancelCalls, staleCancelCalls, fires,
                   exitVars>>

\* ------------------------------------------------------------ stop()
\* stop() is called from outside (the command's signal handler).
StopCall ==
    /\ Alive
    /\ startPc # "init"
    /\ StopsTotal < MaxStops
    /\ InvokeStop
    /\ UNCHANGED <<remoteBuild, supportedPaths, queueBuildResult,
                   unhandledRejections, preventUploads, startPc, machineVars,
                   currentStagedBuildId, handlers, cbs, cbFlush, remoteVars,
                   fires, exitVars>>

\* watcher.close() resolved (cleanupServers is a stub): the staged build,
\* if any, is cancelled; without one the process exits with the success code.
StopWatcherClosed ==
    /\ Alive
    /\ stops["close"] > 0
    /\ IF currentStagedBuildId # 0
       THEN /\ stops' = [stops EXCEPT !["close"] = @ - 1, !["cancel"] = @ + 1]
            /\ stopCancelCalls' = stopCancelCalls + 1
            /\ UNCHANGED <<exitCode, exitedBy>>
       ELSE /\ stops' = [stops EXCEPT !["close"] = @ - 1]
            /\ Exit(EXIT_CODES.SUCCESS, "stop")
            /\ UNCHANGED stopCancelCalls
    /\ UNCHANGED <<remoteBuild, supportedPaths, queueBuildResult,
                   unhandledRejections, preventUploads, startPc, watcherClosed,
                   machineVars, currentStagedBuildId, handlers, cbs, cbFlush,
                   provisionCalls, queueBuildCalls, staleCancelCalls, fires,
                   stopCancelResult>>

\* A faulty stopExitCode: BUILD_NOT_IN_PROGRESS is treated as a failure.
stopExitCodeStrict(r) ==
    IF r = "ok" THEN EXIT_CODES.SUCCESS ELSE EXIT_CODES.ERROR

\* The exit code stop() computes from the outcome of cancelStagedBuild.
stopExitCode(r) ==
    IF r = "ok" \/ r = "BUILD_NOT_IN_PROGRESS"
    THEN EXIT_CODES.SUCCESS
    ELSE EXIT_CODES.ERROR

StopCancelDone(r) ==
    /\ Alive
    /\ stops["cancel"] > 0
    /\ stops' = [stops EXCEPT !["cancel"] = @ - 1]
    /\ r = "ok" => remoteBuild # "none"
    /\ r = "BUILD_NOT_IN_PROGRESS" => remoteBuild = "none"
    /\ remoteBuild' = IF r = "ok" THEN "none" ELSE remoteBuild
    /\ stopCancelResult' = r
    /\ Exit(stopExitCode(r), "stop")
    /\ UNCHANGED <<supportedPaths, queueBuildResult, unhandledRejections,
                   preventUploads, startPc, watcherClosed, machineVars,
                   currentStagedBuildId, handlers, cbs, cbFlush, remoteVars,
                   fires>>

\* ------------------------------------------------------------ specification
Next ==
    \/ Start
    \/ RemoteProvisions
    \/ \E who \in {"start", "cb"}, r \in {"ok", "PROJECT_LOCKED", "other"} :
          ProvisionDone(who, r)
    \/ \E who \in {"start", "cb"}, r \in {"ok", "error"} :
          CancelStaleDone(who, r)
    \/ \E event \in EmittedEvents, filePath \in Paths : WatchEvent(event, filePath)
    \/ \E i \in 1..Len(handlers) : AfterFlush(i)
    \/ CbFlushed
    \/ \E c \in inflight, r \in {"ok", "error"} : UploadDone(c, r)
    \/ Tick
    \/ \E h \in DOMAIN timers : TimerFires(h)
    \/ CbDrained
    \/ \E r \in {"ok", "MISSING_PROJECT_PROVISION", "other"} : CbQueueBuildDone(r)
    \/ CbPollDone
    \/ StopCall
    \/ StopWatcherClosed
    \/ \E r \in {"ok", "BUILD_NOT_IN_PROGRESS", "other"} : StopCancelDone(r)

Spec == Init /\ [][Next]_vars

\* A burst of saves with uploads enabled, no stop() and a build service
\* that answers every call successfully.  Remote calls return, timers fire
\* and resolved promises run their continuations: these steps are weakly
\* fair; the arrival of events is not.
InitBurst == Init /\ ~preventUploads

NextBurst ==
    \/ Start
    \/ RemoteProvisions
    \/ \E who \in {"start", "cb"} : ProvisionDone(who, "ok")
    \/ BurstEvent
    \/ \E c \in inflight : UploadDone(c, "ok")
    \/ Tick
    \/ \E h \in DOMAIN timers : TimerFires(h)
    \/ CbDrained
    \/ CbQueueBuildDone("ok")
    \/ CbPollDone

\* Dev servers plugged in: notifyServers may answer true.  No stop() and
\* a build service that answers every call successfully.
InitPluggable ==
    /\ InitManager
    /\ ~preventUploads
    /\ supportedPaths \in SUBSET {"a.html", "b.exe"}

NextPluggable ==
    \/ Start
    \/ RemoteProvisions
    \/ \E who \in {"start", "cb"} : ProvisionDone(who, "ok")
    \/ \E event \in EmittedEvents, filePath \in Paths : WatchEvent(event, filePath)
    \/ \E i \in 1..Len(handlers) : AfterFlush(i)
    \/ CbFlushed
    \/ \E c \in inflight : UploadDone(c, "ok")
    \/ Tick
    \/ \E h \in DOMAIN timers : TimerFires(h)
    \/ CbDrained
    \/ CbQueueBuildDone("ok")
    \/ CbPollDone

SpecPluggable == InitPluggable /\ [][NextPluggable]_vars

SpecBurst ==
    /\ InitBurst
    /\ [][NextBurst]_vars
    /\ WF_vars(Start)
    /\ WF_vars(RemoteProvisions)
    /\ WF_vars(\E who \in {"start", "cb"} : ProvisionDone(who, "ok"))
    /\ WF_vars(\E c \in inflight : UploadDone(c, "ok"))
    /\ WF_vars(Tick)
    /\ WF_vars(\E h \in DOMAIN timers : TimerFires(h))
    /\ WF_vars(CbDrained)
    /\ WF_vars(CbQueueBuildDone("ok"))
    /\ WF_vars(CbPollDone)

\* ------------------------------------------------------------ properties
CallsOf(i, via) == {k \in 1..Len(calls) : calls[k].id = i /\ calls[k].via = via}

OpOf(event) == IF event \in {"add", "change"} THEN "upload" ELSE "delete"

ActiveCallbacks ==
    cbs["drain"] + cbs["queueBuild"] + cbs["poll"] + cbs["provision"]
        + cbs["cancelStale"]

C4_QuiescentQueueBuild ==
    [][queueBuildCalls' # queueBuildCalls => inflight = {}]_vars

Eligible(event, filePath) ==
    /\ ~shouldIgnoreFile(filePath)
    /\ event \in {"add", "change"} => isAllowedExtension(filePath)

\* C5: every eligible event whose handler returned, uploads not being
\* prevented, has a file call, a stored queue task or a standby entry.
C5_NoSilentDrop ==
    \A i \in 1..Len(handlers) :
       (/\ handlers[i].pc # "flush"
        /\ ~preventUploads
        /\ Eligible(handlers[i].event, handlers[i].filePath))
       => \/ \E k \in 1..Len(calls) : calls[k].id = i
          \/ \E k \in 1..Len(queue) : queue[k].id = i
          \/ \E k \in 1..Len(standbyChanges) : standbyChanges[k].id = i

\* C6: all the stop() invocations together issue at most one
\* cancelStagedBuild call.
C6_StopIdempotent == stopCancelCalls <= 1

\* C7: with preventUploads no provisionBuild and no queueBuild call is
\* issued, nothing enters the upload queue or the standby buffer, no file
\* call is made and no timer is armed; every event only sets the status.
C7_PreventUploads ==
    preventUploads =>
       /\ provisionCalls = 0 /\ queueBuildCalls = 0
       /\ queue = << >> /\ pending = {} /\ calls = << >>
       /\ standbyChanges = << >>
       /\ DOMAIN timers = {} /\ debouncedBuild = 0 /\ fires = 0
       /\ \A i \in 1..Len(handlers) : handlers[i].pc = "prevented"
       /\ Len(handlers) > 0 => status = "uploadPrevented"

\* Uploads are prevented and two events were handled.
C7_Witness ==
    preventUploads /\ Len(handlers) >= 2 /\ status = "uploadPrevented"

\* C8: an add event for a path whose extension is not allowed has no file
\* call, no queue task and no standby entry.
C8_IneligibleAddIgnored ==
    \A i \in 1..Len(handlers) :
       (handlers[i].event = "add" /\ ~isAllowedExtension(handlers[i].filePath))
       => /\ \A k \in 1..Len(calls) : calls[k].id # i
          /\ \A k \in 1..Len(queue) : queue[k].id # i
          /\ \A k \in 1..Len(standbyChanges) : standbyChanges[k].id # i

\* C9: when stop() exits the process: without a staged build no cancel call
\* was made and the code is SUCCESS; with one, the code is SUCCESS when
\* cancelStagedBuild succeeded or failed with BUILD_NOT_IN_PROGRESS and ERROR
\* when it failed otherwise.
C9_StopExitCode ==
    exitedBy = "stop" =>
       IF currentStagedBuildId = 0
       THEN stopCancelCalls = 0 /\ exitCode = EXIT_CODES.SUCCESS
       ELSE /\ stopCancelCalls > 0
            /\ stopCancelResult \in {"ok", "BUILD_NOT_IN_PROGRESS"}
                  => exitCode = EXIT_CODES.SUCCESS
            /\ stopCancelResult = "other" => exitCode = EXIT_CODES.ERROR
            /\ stopCancelResult # "none"

\* stop() exited with SUCCESS after cancelStagedBuild failed with
\* BUILD_NOT_IN_PROGRESS.
C9_Witness ==
    /\ exitedBy = "stop"
    /\ stopCancelResult = "BUILD_NOT_IN_PROGRESS"
    /\ exitCode = EXIT_CODES.SUCCESS

\* C10: when the first provisionBuild fails with PROJECT_LOCKED and the
\* stale build was cancelled, the process exits only after provisionBuild
\* was called a second time.
C10_RetryAfterLock ==
    (startPc = "cancelStale" /\ exitedBy = "provision") => provisionCalls >= 2

\* C11: a file call that fails is caught inside its task: no rejection
\* leaves the task, the queue or handleWatchEvent.
C11_FailureCaught ==
    \A k \in 1..Len(calls) : k \notin unhandledRejections

\* C12: once stop() has been invoked the debounce timer does not fire, so
\* its callback issues no queueBuild and no provisionBuild call afterwards.
C12_StopCancelsTimer ==
    [][watcherClosed => fires' = fires]_vars

\* C13: after queueBuild failed with MISSING_PROJECT_PROVISION, stop() has
\* been invoked; after it failed with another error the callback is over and
\* nothing is retried: the queue stays paused, no timer is armed, and no
\* provisionBuild and no queueBuild call follows.
C13_QueueBuildFailure ==
    /\ [](queueBuildResult = "MISSING_PROJECT_PROVISION" => watcherClosed)
    /\ [](queueBuildResult = "other" =>
             isPaused /\ ActiveCallbacks = 0 /\ DOMAIN timers = {})
    /\ [][queueBuildResult = "other" =>
             /\ provisionCalls' = provisionCalls
             /\ queueBuildCalls' = queueBuildCalls]_vars

\* queueBuild failed with an unspecified error and an event that arrived
\* afterwards was buffered.
C13_Witness ==
    /\ queueBuildResult = "other"
    /\ \E i \in 1..Len(handlers) :
          handlers[i].pc = "standby" /\ i > Len(calls)

C15_DrainCompletes ==
    (cbs["drain"] > 0) ~> (cbs["drain"] = 0)

C17_SupportedNotUploaded ==
    \A i \in 1..Len(handlers) :
       handlers[i].pc = "supported" => \A k \in 1..Len(calls) : calls[k].id # i

\* C18: without stop() and without remote errors, the changes uploaded into
\* the staged build are eventually followed by a queueBuild call.
C18_UploadedThenQueued ==
    (Len(calls) > 0) ~> (queueBuildCalls > 0)

\* C19: a file call is issued only while the queue runs, no deploy cycle
\* is in flight and a staged build is provisioned; a paused queue is resumed
\* only by the callback whose provisionBuild returned, with the new build
\* as the current one; before the first provisionBuild of start() returned
\* no event is handled.
C19_NoCallDuringDeploy ==
    /\ [][Len(calls') > Len(calls) =>
             /\ ~isPaused' /\ ActiveCallbacks' = 0
             /\ startPc' = "watching" /\ currentStagedBuildId' # 0]_vars
    /\ [][isPaused /\ ~isPaused' =>
             /\ cbs["provision"] > 0 /\ cbs'["provision"] = 0
             /\ currentStagedBuildId' = provisionCalls]_vars
    /\ [](startPc # "watching" => handlers = << >>)

\* A change buffered during a deploy was replayed into the second build.
C19_Witness ==
    /\ currentStagedBuildId = 2
    /\ \E k \in 1..Len(calls) : calls[k].via = "flush"

\* C20: when stop() has exited with the success code, the service holds no
\* staged build of this run that was neither deployed nor cancelled.
C20_NoDanglingBuild ==
    (exitedBy = "stop" /\ exitCode = EXIT_CODES.SUCCESS) => remoteBuild = "none"

====
